---- MODULE Spec2Model ----
(***************************************************************************)
(* Model of the QuillEditor adapter of frosty-quill (src/quill/index.tsx): *)
(* the Line[] <-> Delta codec (encodeContent, decodeContent,               *)
(* _removeEmptyLines), the component's state and effects, and the          *)
(* replaceAssets handle.                                                   *)
(*                                                                         *)
(* Representation.  An attribute map is the set of its entries, so {} is   *)
(* the empty map.  An insert is a record [kind, v]: kind "text" with v     *)
(* the sequence of its characters, kind "image" with v = <<uri>>, or kind  *)
(* "video" (an embed that is not an image) with v = <<uri>>.  A Delta is   *)
(* the sequence of its insert operations.  An optional value is a          *)
(* sequence of length 0 (absent) or 1.                                     *)
(***************************************************************************)
EXTENDS Integers, Sequences, FiniteSets, TLC

\* ------------------------------------------------------------------ bounds
MaxLines == 2
MaxSegs == 2
MaxDocLen == 3
MaxRenders == 4

\* ------------------------------------------------------------ value helpers
None == <<>>
Some(x) == <<x>>

Text(s) == [kind |-> "text", v |-> s]
Image(u) == [kind |-> "image", v |-> <<u>>]
Video(u) == [kind |-> "video", v |-> <<u>>]
NL == Text(<<"\n">>)

IsString(ins) == ins.kind = "text"

\* _.isEmpty on an insert: the empty string; an embed object has a key
IsEmptyInsert(ins) == IsString(ins) /\ ins.v = <<>>

Min(a, b) == IF a < b THEN a ELSE b
Max(a, b) == IF a > b THEN a ELSE b

SeqsUpTo(S, n) == UNION {[1..k -> S] : k \in 0..n}

\* ------------------------------------------------------------- quill-delta
\* Delta.push: a string insert is merged into a preceding string insert
\* that has the same attributes
DeltaPush(ops, newOp) ==
  IF /\ Len(ops) > 0
     /\ ops[Len(ops)].attributes = newOp.attributes
     /\ IsString(newOp.insert)
     /\ IsString(ops[Len(ops)].insert)
  THEN [ops EXCEPT ![Len(ops)] =
          [insert |-> Text(ops[Len(ops)].insert.v \o newOp.insert.v),
           attributes |-> newOp.attributes]]
  ELSE Append(ops, newOp)

\* Delta.insert: inserting the empty string does nothing
DeltaInsert(ops, ins, attrs) ==
  IF IsEmptyInsert(ins) THEN ops
  ELSE DeltaPush(ops, [insert |-> ins, attributes |-> attrs])

\* ------------------------------------------------------------------- codec
RECURSIVE InsertSegments(_, _)
InsertSegments(content, segs) ==
  IF segs = <<>> THEN content
  ELSE InsertSegments(DeltaInsert(content, Head(segs).insert, Head(segs).attributes),
                      Tail(segs))

RECURSIVE EncodeLines(_, _, _, _)
EncodeLines(content, lineAttrs, lines, i) ==
  IF i > Len(lines) THEN [content |-> content, lineAttrs |-> lineAttrs]
  ELSE LET c1 == IF i # 1 THEN DeltaInsert(content, NL, lineAttrs) ELSE content
           c2 == InsertSegments(c1, lines[i].segments)
       IN EncodeLines(c2, lines[i].attributes, lines, i + 1)

encodeContent(lines) ==
  LET r == EncodeLines(<<>>, {}, lines, 1)
  IN IF r.lineAttrs # {} THEN DeltaInsert(r.content, NL, r.lineAttrs) ELSE r.content

\* String.prototype.split('\n'): always at least one piece
RECURSIVE SplitNL(_, _, _)
SplitNL(s, cur, acc) ==
  IF s = <<>> THEN Append(acc, cur)
  ELSE IF Head(s) = "\n" THEN SplitNL(Tail(s), <<>>, Append(acc, cur))
  ELSE SplitNL(Tail(s), Append(cur, Head(s)), acc)

AllNewlines(s) == \A i \in 1..Len(s) : s[i] = "\n"

Line(segs, attrs) == [segments |-> segs, attributes |-> attrs]
Seg(ins, attrs) == [insert |-> ins, attributes |-> attrs]

RECURSIVE PushLines(_, _, _)
PushLines(st, n, attrs) ==
  IF n = 0 THEN st
  ELSE PushLines([result |-> Append(st.result, Line(st.segments, attrs)),
                  segments |-> <<>>], n - 1, attrs)

RECURSIVE PushPieces(_, _, _, _)
PushPieces(st, pieces, i, attrs) ==
  IF i > Len(pieces) THEN st
  ELSE LET s1 == IF i # 1
                 THEN [result |-> Append(st.result, Line(st.segments, {})),
                       segments |-> <<>>]
                 ELSE st
       IN PushPieces([s1 EXCEPT !.segments = Append(@, Seg(Text(pieces[i]), attrs))],
                     pieces, i + 1, attrs)

DecodeOp(st, op) ==
  IF IsString(op.insert) /\ AllNewlines(op.insert.v)
  THEN PushLines(st, Len(op.insert.v), op.attributes)
  ELSE IF IsString(op.insert)
  THEN PushPieces(st, SplitNL(op.insert.v, <<>>, <<>>), 1, op.attributes)
  ELSE [st EXCEPT !.segments = Append(@, Seg(op.insert, op.attributes))]

RECURSIVE DecodeOps(_, _)
DecodeOps(st, ops) ==
  IF ops = <<>> THEN st ELSE DecodeOps(DecodeOp(st, Head(ops)), Tail(ops))

decodeContent(content) ==
  LET st == DecodeOps([result |-> <<>>, segments |-> <<>>], content)
  IN IF st.segments # <<>> THEN Append(st.result, Line(st.segments, {}))
     ELSE st.result

IsEmptyLine(x) ==
  /\ \A i \in 1..Len(x.segments) : IsEmptyInsert(x.segments[i].insert)
  /\ x.attributes = {}

RECURSIVE _removeEmptyLines(_)
_removeEmptyLines(lines) ==
  IF lines # <<>> /\ IsEmptyLine(lines[Len(lines)])
  THEN _removeEmptyLines(SubSeq(lines, 1, Len(lines) - 1))
  ELSE lines

\* ------------------------------------------------------------- codec inputs
InputTexts == {<<>>, <<"a">>, <<"\n">>, <<"a", "\n">>}
InlineAttrs == {{}, {"bold"}}
BlockAttrs == {{}, {"header"}}
InputSegments ==
  {Seg(Text(t), a) : t \in InputTexts, a \in InlineAttrs} \cup {Seg(Image("u1"), {})}
InputLine == {Line(s, a) : s \in SeqsUpTo(InputSegments, MaxSegs), a \in BlockAttrs}
InputDocs == SeqsUpTo(InputLine, MaxLines)

VARIABLES
  cin,     \* the Line[] handed to the codec
  cdelta,  \* encodeContent's result
  cout,    \* decodeContent's result, then _removeEmptyLines' result
  cfirst,  \* the result of the first round trip, once there is one
  cpc      \* where the round trip stands

cvars == <<cin, cdelta, cout, cfirst, cpc>>

CodecStart ==
  /\ cdelta = <<>>
  /\ cout = <<>>
  /\ cfirst = None
  /\ cpc = "input"

Encode ==
  /\ cpc = "input"
  /\ cdelta' = encodeContent(IF cfirst = None THEN cin ELSE cfirst[1])
  /\ cpc' = "encoded"
  /\ UNCHANGED <<cin, cout, cfirst>>

Decode ==
  /\ cpc = "encoded"
  /\ cout' = decodeContent(cdelta)
  /\ cpc' = "decoded"
  /\ UNCHANGED <<cin, cdelta, cfirst>>

Strip ==
  /\ cpc = "decoded"
  /\ cout' = _removeEmptyLines(cout)
  /\ cpc' = "stripped"
  /\ UNCHANGED <<cin, cdelta, cfirst>>

\* feed the normalised document back in for a second round trip
Again ==
  /\ cpc = "stripped"
  /\ cfirst = None
  /\ cfirst' = Some(cout)
  /\ cpc' = "input"
  /\ UNCHANGED <<cin, cdelta, cout>>


\* ----------------------------------------------------- quill-delta: diff
\* The characters of a Delta, one cell per character or embed
RECURSIVE TextCells(_, _)
TextCells(s, attrs) ==
  IF s = <<>> THEN <<>>
  ELSE <<[insert |-> Text(<<Head(s)>>), attributes |-> attrs]>> \o TextCells(Tail(s), attrs)

RECURSIVE Cells(_)
Cells(ops) ==
  IF ops = <<>> THEN <<>>
  ELSE (IF IsString(Head(ops).insert)
        THEN TextCells(Head(ops).insert.v, Head(ops).attributes)
        ELSE <<Head(ops)>>) \o Cells(Tail(ops))

RECURSIVE FromCells(_, _)
FromCells(ops, cells) ==
  IF cells = <<>> THEN ops
  ELSE FromCells(DeltaInsert(ops, Head(cells).insert, Head(cells).attributes), Tail(cells))

\* Delta.length
DeltaLength(ops) == Len(Cells(ops))

\* the string diff compares: an embed counts as one NULL character
DiffChar(cell) == IF IsString(cell.insert) THEN cell.insert.v[1] ELSE "\\0"

RECURSIVE CommonPrefix(_, _)
CommonPrefix(a, b) ==
  IF a # <<>> /\ b # <<>> /\ DiffChar(Head(a)) = DiffChar(Head(b))
  THEN 1 + CommonPrefix(Tail(a), Tail(b))
  ELSE 0

RECURSIVE CommonSuffix(_, _)
CommonSuffix(a, b) ==
  IF a # <<>> /\ b # <<>> /\ DiffChar(a[Len(a)]) = DiffChar(b[Len(b)])
  THEN 1 + CommonSuffix(SubSeq(a, 1, Len(a) - 1), SubSeq(b, 1, Len(b) - 1))
  ELSE 0

\* an equal character: retained (with the attribute change, if any), or
\* replaced when the two embeds differ
EqualOps(x, y) ==
  IF x.insert = y.insert
  THEN <<[type |-> "retain", plain |-> (x.attributes = y.attributes)]>>
  ELSE <<[type |-> "insert", plain |-> TRUE], [type |-> "delete", plain |-> TRUE]>>

RECURSIVE EqualRun(_, _, _, _)
EqualRun(a, b, i, n) ==
  IF n = 0 THEN <<>>
  ELSE EqualOps(a[i], b[i + Len(b) - Len(a)]) \o EqualRun(a, b, i + 1, n - 1)

RECURSIVE PrefixRun(_, _, _, _)
PrefixRun(a, b, i, n) ==
  IF i > n THEN <<>> ELSE EqualOps(a[i], b[i]) \o PrefixRun(a, b, i + 1, n)

Repeat(n, op) == [i \in 1..n |-> op]

\* Delta.chop: a trailing plain retain is dropped
RECURSIVE Chop(_)
Chop(d) ==
  IF d # <<>> /\ d[Len(d)].type = "retain" /\ d[Len(d)].plain
  THEN Chop(SubSeq(d, 1, Len(d) - 1))
  ELSE d

\* Delta.diff, as a sequence of operations of length one: the common
\* prefix and suffix of the two texts are kept, what lies between is
\* inserted and deleted (inserts first, as Delta.push orders them)
Diff(this, other) ==
  LET a == Cells(this)
      b == Cells(other)
      p == CommonPrefix(a, b)
      s == Min(CommonSuffix(a, b), Min(Len(a), Len(b)) - p)
  IN Chop(PrefixRun(a, b, 1, p)
          \o Repeat(Len(b) - p - s, [type |-> "insert", plain |-> TRUE])
          \o Repeat(Len(a) - p - s, [type |-> "delete", plain |-> TRUE])
          \o EqualRun(a, b, Len(a) - s + 1, s))

\* Delta.transformPosition(index), priority false
RECURSIVE TransformFrom(_, _, _, _)
TransformFrom(d, k, offset, index) ==
  IF k > Len(d) \/ offset > index THEN index
  ELSE IF d[k].type = "delete"
  THEN TransformFrom(d, k + 1, offset, index - Min(1, index - offset))
  ELSE IF d[k].type = "insert"
  THEN TransformFrom(d, k + 1, offset + 1, index + 1)
  ELSE TransformFrom(d, k + 1, offset + 1, index)

transformPosition(d, index) == TransformFrom(d, 1, 0, index)

\* ------------------------------------------------------------------- Quill
\* the contents of a new editor: one empty line
EmptyContents == <<[insert |-> NL, attributes |-> {}]>>

EndsWithNewline(ops) ==
  /\ ops # <<>>
  /\ IsString(ops[Len(ops)].insert)
  /\ ops[Len(ops)].insert.v[Len(ops[Len(ops)].insert.v)] = "\n"

\* Quill.setContents: the document always ends with a newline
SetContents(delta) ==
  IF EndsWithNewline(delta) THEN delta ELSE DeltaInsert(delta, NL, {})

\* Quill.setSelection: the range is kept inside the document
SetSelection(contents, index, length) ==
  LET last == DeltaLength(contents) - 1
      from == Min(Max(0, index), last)
      to == Min(Max(0, index) + length, last)
  IN Some([index |-> from, length |-> to - from])

\* the selection after a change of the contents that did not set it
KeepSelection(contents, sel) ==
  IF sel = None THEN None ELSE SetSelection(contents, sel[1].index, sel[1].length)

\* Quill's emitter: text-change and selection-change are emitted for every
\* source but 'silent'
QuillEmits(source) == source # "silent"

\* ------------------------------------------------------------- the component
\* what the user can put into the editor, one cell at a time
EditCells ==
  { [insert |-> Text(<<"a">>), attributes |-> {}],
    [insert |-> NL, attributes |-> {}],
    [insert |-> NL, attributes |-> {"header"}] }

IsNewlineCell(c) == c.insert = NL

InsertAt(cells, p, c) == SubSeq(cells, 1, p) \o <<c>> \o SubSeq(cells, p + 1, Len(cells))
RemoveAt(cells, p) == SubSeq(cells, 1, p - 1) \o SubSeq(cells, p + 1, Len(cells))

\* the documents one local change leads to from the contents d
LocalChanges(d) ==
  LET cells == Cells(d)
  IN { FromCells(<<>>, InsertAt(cells, p, c)) :
         p \in 0..(IF Len(cells) < MaxDocLen THEN Len(cells) - 1 ELSE -1), c \in EditCells }
     \cup
     { FromCells(<<>>, RemoveAt(cells, p)) : p \in 1..(Len(cells) - 1) }
     \cup
     { FromCells(<<>>, [cells EXCEPT ![Len(cells)] = c]) :
         c \in {x \in EditCells : IsNewlineCell(x)} }

\* the values the parent passes as the value prop
PropValues ==
  { <<>>,
    <<Line(<<Seg(Text(<<"a", "a">>), {})>>, {})>>,
    <<Line(<<Seg(Text(<<"a">>), {})>>, {}), Line(<<Seg(Image("u1"), {})>>, {})>>,
    <<Line(<<Seg(Image("u1"), {"alt"}), Seg(Video("u1"), {})>>, {}),
      Line(<<>>, {}), Line(<<>>, {})>> }

\* the maps replaceAssets is called with
AssetMaps == { ("u1" :> "u2"), ("u3" :> "u2") }

Selections == {[index |-> 1, length |-> 1]}

VARIABLES
  value,      \* the value prop
  mouseDown,  \* useState(false)
  capture,    \* useState<Delta>(): absent, or the captured contents
  mounted,    \* editorRef.current is set
  contents,   \* editor.getContents()
  selection,  \* editor.hasFocus() && editor.getSelection()
  capDirty,   \* [capture, mouseDown] changed since the last render
  valDirty,   \* [content, mouseDown] changed since the last render
  lastLocal,  \* the contents after the latest local text change
  heldDown,   \* the capture was set while the pointer was down
  renders,    \* renders since the latest user event (SpecApp only)
  last        \* the latest step: what it was and which callbacks it made

vars == <<value, mouseDown, capture, mounted, contents, selection,
          capDirty, valDirty, lastLocal, heldDown, renders, last, cvars>>

evars == <<value, mouseDown, capture, mounted, contents, selection,
           capDirty, valDirty, lastLocal, heldDown, renders, last>>

Step(op) == [op |-> op, emitted |-> None, via |-> "", held |-> FALSE,
             reset |-> FALSE, selCalls |-> 0, arg |-> <<>>]

\* useMemo(() => encodeContent(value ?? []), [value])
content == encodeContent(value)

\* ------------------------------------------------------------------ effects
\* variant: the capture effect without its mouseDown guard
CaptureFiresPointerDown(cap, md) == cap # None

\* capture effect, line 130: the guard that lets a capture through
CaptureFires(cap, md) == ~md /\ cap # None

\* variant: the capture effect without _removeEmptyLines
CaptureEmitsUnstripped(cap) == decodeContent(cap[1])

\* capture effect, line 132: what is handed to onChangeValue
CaptureEmits(cap) == _removeEmptyLines(decodeContent(cap[1]))

\* value effect, line 140: the editor does not hold the desired content
NeedsReset(cur, cont) ==
  Diff(encodeContent(_removeEmptyLines(decodeContent(cur))), cont) # <<>>

\* value effect, lines 147-148: the diff is taken from the editor's contents
\* as they are after setContents
ResetPosition(cur, after, cont, index) == transformPosition(Diff(after, cont), index)

\* value effect, lines 142-149
ResetSelection(cur, cont, sel) ==
  IF sel = None THEN None
  ELSE SetSelection(SetContents(cont),
                    ResetPosition(cur, SetContents(cont), cont, sel[1].index),
                    sel[1].length)

\* variant: the value effect with Quill's default source
ApiSource == "api"

\* value effect, lines 143 and 149: the source of setContents and setSelection
ResetSource == "silent"

\* mount effect, line 215: the source of the first setContents
MountSource == "silent"

\* variant: textChange keeping a capture that is already waiting
CapturedFirst(cap, new) == IF cap # None THEN cap ELSE Some(new)

\* textChange, line 208: every local change replaces the capture
Captured(cap, new) == Some(new)

\* replaceAssets, lines 180-181: the URI has a truthy replacement
Replaceable(assets, u) == u \in DOMAIN assets /\ assets[u] # ""

\* replaceAssets, lines 177-187
ReplaceOp(assets, op) ==
  IF op.insert.kind = "image" /\ Replaceable(assets, op.insert.v[1])
  THEN [op EXCEPT !.insert = Image(assets[op.insert.v[1]])]
  ELSE op

ReplaceOps(assets, ops) == [i \in 1..Len(ops) |-> ReplaceOp(assets, ops[i])]

\* variant: replaceAssets without its isChanged early return
isChangedAlways(assets, ops) == TRUE

\* replaceAssets, lines 176-188: some image was replaced
isChanged(assets, ops) ==
  \E i \in 1..Len(ops) :
    ops[i].insert.kind = "image" /\ Replaceable(assets, ops[i].insert.v[1])

\* replaceAssets, line 190: what is handed to onChangeValue
ReplaceEmits(assets, ops) == decodeContent(ReplaceOps(assets, ops))

\* ------------------------------------------------------------------ actions
Start ==
  /\ mouseDown = FALSE
  /\ capture = None
  /\ mounted = FALSE
  /\ contents = <<>>
  /\ selection = None
  /\ capDirty = FALSE
  /\ valDirty = FALSE
  /\ lastLocal = <<>>
  /\ heldDown = FALSE
  /\ renders = 0
  /\ last = Step("init")

\* the mount effect, lines 194-220
Mount ==
  /\ ~mounted
  /\ mounted' = TRUE
  /\ contents' = IF value # <<>> THEN SetContents(content) ELSE EmptyContents
  /\ capture' = IF value # <<>> /\ QuillEmits(MountSource)
                THEN Captured(capture, contents') ELSE capture
  /\ capDirty' = (value # <<>> /\ QuillEmits(MountSource))
  /\ lastLocal' = contents'
  /\ last' = Step("mount")
  /\ UNCHANGED <<value, mouseDown, selection, valDirty, heldDown, renders, cvars>>

\* a local change of the text: Quill's text-change event, lines 207-209
textChange(new) ==
  /\ mounted
  /\ new # contents
  /\ contents' = new
  /\ selection' = KeepSelection(new, selection)
  /\ capture' = Captured(capture, new)
  /\ capDirty' = TRUE
  /\ lastLocal' = new
  /\ heldDown' = mouseDown
  /\ last' = Step("textChange")
  /\ UNCHANGED <<value, mouseDown, mounted, valDirty, cvars>>

\* the user moves the selection or leaves the editor: Quill's
\* selection-change event, lines 210-212
selectionChange(range) ==
  /\ mounted
  /\ range # selection
  /\ selection' = range
  /\ last' = [Step("selectionChange") EXCEPT !.selCalls = 1]
  /\ UNCHANGED <<value, mouseDown, capture, mounted, contents, capDirty, valDirty,
                 lastLocal, heldDown, cvars>>

Ranges ==
  {None} \cup {SetSelection(contents, r.index, r.length) : r \in Selections}

\* onMouseDown / onMouseUp, lines 225-232
setMouseDown(down, op) ==
  /\ mounted
  /\ mouseDown' = down
  /\ capDirty' = (capDirty \/ down # mouseDown)
  /\ valDirty' = (valDirty \/ down # mouseDown)
  /\ last' = Step(op)
  /\ UNCHANGED <<value, capture, mounted, contents, selection, lastLocal, heldDown,
                 cvars>>

\* the parent renders the component with another value prop
PropChange ==
  /\ mounted
  /\ \E v \in PropValues :
       /\ v # value
       /\ value' = v
  /\ valDirty' = TRUE
  /\ last' = Step("value")
  /\ UNCHANGED <<mouseDown, capture, mounted, contents, selection, capDirty,
                 lastLocal, heldDown, renders, cvars>>

\* the handle's replaceAssets, lines 173-191
replaceAssets(assets) ==
  /\ last' = IF mounted /\ isChanged(assets, content)
             THEN [Step("replaceAssets") EXCEPT
                     !.emitted = Some(ReplaceEmits(assets, content)),
                     !.via = "replaceAssets", !.arg = assets]
             ELSE [Step("replaceAssets") EXCEPT !.arg = assets]
  /\ UNCHANGED <<value, mouseDown, capture, mounted, contents, selection,
                 capDirty, valDirty, lastLocal, heldDown, renders, cvars>>

\* A render and the effects it runs: the capture effect (lines 128-133) when
\* [capture, mouseDown] changed, then the value effect (lines 135-151) when
\* [content, mouseDown] changed.  stored: the parent stores what
\* onChangeValue hands it and passes it back as the value prop.
render(stored) ==
  LET fires == capDirty /\ CaptureFires(capture, mouseDown)
      resets == valDirty /\ ~mouseDown /\ NeedsReset(contents, content)
      loud == resets /\ QuillEmits(ResetSource)
  IN /\ mounted
     /\ capDirty \/ valDirty
     /\ capture' = IF loud THEN Captured(capture, SetContents(content))
                   ELSE IF fires THEN None ELSE capture
     /\ capDirty' = (fires \/ loud)
     /\ value' = IF fires /\ stored THEN CaptureEmits(capture) ELSE value
     /\ valDirty' = (fires /\ stored)
     /\ contents' = IF resets THEN SetContents(content) ELSE contents
     /\ selection' = IF resets THEN ResetSelection(contents, content, selection)
                     ELSE selection
     /\ heldDown' = (heldDown /\ ~fires)
     /\ last' = [Step("render") EXCEPT
                   !.emitted = IF fires THEN Some(CaptureEmits(capture)) ELSE None,
                   !.via = IF fires THEN "capture" ELSE "",
                   !.held = (fires /\ heldDown),
                   !.reset = resets,
                   !.selCalls = IF loud /\ selection # None THEN 1 ELSE 0]
     /\ UNCHANGED <<mouseDown, mounted, lastLocal, cvars>>

\* --------------------------------------------- the component, any parent
Init ==
  /\ value \in PropValues
  /\ Start
  /\ cin = <<>>
  /\ CodecStart

Edit ==
  /\ mounted
  /\ \E new \in LocalChanges(contents) : textChange(new)
  /\ UNCHANGED renders
Select ==
  /\ mounted
  /\ \E r \in Ranges : selectionChange(r)
  /\ UNCHANGED renders
MouseDown == setMouseDown(TRUE, "mouseDown") /\ UNCHANGED renders
MouseUp == setMouseDown(FALSE, "mouseUp") /\ UNCHANGED renders
ReplaceAssets == \E assets \in AssetMaps : replaceAssets(assets)
Render == render(FALSE) /\ UNCHANGED renders

Next ==
  \/ Mount
  \/ Edit
  \/ Select
  \/ MouseDown
  \/ MouseUp
  \/ PropChange
  \/ ReplaceAssets
  \/ Render

Spec == Init /\ [][Next]_vars

\* ------------------------------- the component under the test app's parent
AppInit ==
  /\ value = <<>>
  /\ Start
  /\ cin = <<>>
  /\ CodecStart

AppEdit ==
  /\ mounted
  /\ \E new \in LocalChanges(contents) : textChange(new)
  /\ renders' = 0

AppMouseDown ==
  /\ setMouseDown(TRUE, "mouseDown")
  /\ renders' = 0

AppMouseUp ==
  /\ setMouseDown(FALSE, "mouseUp")
  /\ renders' = 0

AppRender ==
  /\ renders < MaxRenders
  /\ render(TRUE)
  /\ renders' = renders + 1

AppNext ==
  \/ Mount
  \/ AppEdit
  \/ AppMouseDown
  \/ AppMouseUp
  \/ AppRender

SpecApp == AppInit /\ [][AppNext]_vars

\* ---------------------------------------------------------- the codec alone
CodecInit ==
  /\ cin \in InputDocs
  /\ CodecStart
  /\ value = <<>>
  /\ Start

CodecNext == (Encode \/ Decode \/ Strip \/ Again) /\ UNCHANGED evars

SpecCodec == CodecInit /\ [][CodecNext]_vars

\* ------------------------------------------------------------------- claims
NoTrailingEmptyLine(x) == x = <<>> \/ ~IsEmptyLine(x[Len(x)])

\* the image URIs of a document
SegmentsOf(lines) ==
  UNION {{lines[i].segments[j] : j \in 1..Len(lines[i].segments)} : i \in 1..Len(lines)}

ImageUris(lines) ==
  {x.insert.v[1] : x \in {y \in SegmentsOf(lines) : y.insert.kind = "image"}}

\* some image segment of the document has a URI that is a key of the map
HasKeyedImage(lines, assets) == ImageUris(lines) \cap DOMAIN assets # {}

\* the document with the URI of every image whose URI is a key of the map
\* replaced by the mapped URI, and nothing else changed
MapSegment(seg, assets) ==
  IF seg.insert.kind = "image" /\ seg.insert.v[1] \in DOMAIN assets
  THEN [seg EXCEPT !.insert = Image(assets[seg.insert.v[1]])]
  ELSE seg

MapImages(lines, assets) ==
  [i \in 1..Len(lines) |->
     [lines[i] EXCEPT !.segments =
        [j \in 1..Len(lines[i].segments) |-> MapSegment(lines[i].segments[j], assets)]]]

Normalised(c) == _removeEmptyLines(decodeContent(c))

\* C1: decodeContent(encodeContent(x)) = x for every Line[] x that has no
\* trailing empty line.
C1_RoundTrip ==
  (cfirst = None /\ cpc = "decoded" /\ NoTrailingEmptyLine(cin)) => cout = cin

\* C6: with N(x) = _removeEmptyLines(decodeContent(encodeContent(x))),
\* N(N(x)) = N(x) for every Line[] x.
C6_Idempotent ==
  (cfirst # None /\ cpc = "stripped") => cout = cfirst[1]

\* C2: replaceAssets, called on a mounted editor whose value holds an image
\* whose URI is a key of the map, hands onChangeValue once the value with
\* exactly the matching image URIs replaced (stated for the values that have
\* no trailing empty line).
C2_OnlyUrisReplaced ==
  (/\ mounted
   /\ last.op = "replaceAssets"
   /\ HasKeyedImage(value, last.arg)
   /\ NoTrailingEmptyLine(value))
    => last.emitted = Some(MapImages(value, last.arg))

\* C3: replaceAssets without a matching image, or before the editor exists,
\* does not call onChangeValue and leaves the editor's contents and
\* selection, the value prop and the capture state as they are.
C3_NoMatchNoOp ==
  [][(last'.op = "replaceAssets" /\ (~mounted \/ ~HasKeyedImage(value, last'.arg)))
       => /\ last'.emitted = None
          /\ UNCHANGED <<value, mouseDown, capture, mounted, contents, selection,
                         capDirty, valDirty>>]_vars

C3_Witness ==
  /\ mounted
  /\ last.op = "replaceAssets"
  /\ ImageUris(value) # {}
  /\ ~HasKeyedImage(value, last.arg)
  /\ last.emitted = None

\* C4 as stated: while the pointer is down onChangeValue is not invoked.
C4_NoCallWhilePointerDown ==
  last.emitted # None => ~mouseDown

\* C4 as amended: while the pointer is down the capture effect does not
\* invoke onChangeValue, whatever local text changes were captured.
C4_NoCaptureCallWhilePointerDown ==
  (last.op = "render" /\ last.emitted # None) => ~mouseDown

C4_Witness ==
  /\ mouseDown
  /\ capture # None
  /\ last.op = "render"
  /\ last.emitted = None

\* C5, in the case the claim spells out: when a reset applies contents that
\* are the former contents with k characters inserted before the selection
\* index i, the selection index becomes i + k and the length is kept.
InsertedBefore(old, new, i) ==
  LET p == CommonPrefix(old, new)
      k == Len(new) - Len(old)
  IN /\ k > 0
     /\ p < i
     /\ SubSeq(new, 1, p) = SubSeq(old, 1, p)
     /\ SubSeq(new, p + k + 1, Len(new)) = SubSeq(old, p + 1, Len(old))

C5_SelectionRemapped ==
  [][(/\ last'.op = "render"
      /\ last'.reset
      /\ selection # None
      /\ InsertedBefore(Cells(contents), Cells(contents'), selection[1].index))
       => selection' =
            Some([index |-> selection[1].index + DeltaLength(contents') - DeltaLength(contents),
                  length |-> selection[1].length])]_vars

\* C7: no Line[] handed to onChangeValue ends with a fully empty line.
C7_NoTrailingEmptyLineEmitted ==
  last.emitted # None => NoTrailingEmptyLine(last.emitted[1])

\* C8: a capture is cleared only by handing onChangeValue the decoded
\* contents of the latest local text change, every such call consumes the
\* capture, every local text change replaces the capture, a render is
\* pending while a capture waits with the pointer up, and a render that
\* ends with the pointer up leaves no capture behind.
C8_CaptureDelivered ==
  /\ [][(capture # None /\ capture' = None)
          => (last'.via = "capture" /\ last'.emitted = Some(Normalised(lastLocal)))]_vars
  /\ [][(last'.op = "render" /\ last'.emitted # None)
          => (capture # None /\ capture' = None /\ capture[1] = lastLocal)]_vars
  /\ [][(last'.op = "textChange") => capture' = Some(contents')]_vars
  /\ []((capture # None /\ ~mouseDown) => capDirty)
  /\ []((last.op = "render" /\ ~mouseDown) => capture = None)

C8_Witness ==
  /\ last.op = "render"
  /\ last.via = "capture"
  /\ last.held
  /\ last.emitted = Some(Normalised(lastLocal))
  /\ ~mouseDown
  /\ capture = None

\* C9: a render in which no capture is delivered (so only the value effect
\* can act) invokes neither callback and leaves the capture alone; when the
\* editor already holds the value, its contents and selection are untouched,
\* and otherwise the contents become the value's.
C9_ValueChangeSilent ==
  [][(last'.op = "render" /\ ~(capDirty /\ ~mouseDown /\ capture # None))
       => /\ last'.emitted = None
          /\ last'.selCalls = 0
          /\ capture' = capture
          /\ encodeContent(Normalised(contents)) = content
               => (contents' = contents /\ selection' = selection)
          /\ last'.reset => contents' = SetContents(content)]_vars

C9_Witness ==
  /\ last.op = "render"
  /\ last.reset
  /\ last.emitted = None
  /\ selection # None
  /\ capture = None

\* C10: under the test app's parent, whenever no render is pending and the
\* pointer is up, the capture is empty, the value prop is the editor's
\* contents decoded and stripped, and these are those of the latest local
\* text change; and no user event is followed by more than two renders.
Idle == mounted /\ ~capDirty /\ ~valDirty /\ ~mouseDown

Settled ==
  /\ capture = None
  /\ value = Normalised(contents)
  /\ Normalised(contents) = Normalised(lastLocal)

====
